---- MODULE Spec2Model ----
(***************************************************************************)
(* A model of coursera.py: the sitemap is fetched, every listed course     *)
(* page is fetched and parsed into a five-field record, and the records    *)
(* are written to a spreadsheet that is saved once.                        *)
(*                                                                         *)
(* Python objects are tagged records, so that values of different Python   *)
(* types are always comparable: None, str (a sequence of characters; text  *)
(* that is never indexed or searched is written as one piece), int, list   *)
(* and dict (a sequence of <<key, value>> pairs).                          *)
(* The result of an operation that can raise is either such an object or   *)
(* Raise(e), e the name of the exception class.                            *)
(***************************************************************************)
EXTENDS Integers, Sequences, FiniteSets, TLC

\* ------------------------------------------------------------- bounds
MaxUrls == 2      \* URLs in a sitemap response
MaxWeeks == 1     \* 'week' elements inside the 'rc-WeekView' element
MaxParts == 3     \* pieces a requested output file name is built from

\* ------------------------------------------------------ Python objects
PyNone == [none |-> TRUE]
PyStr(s) == [str |-> s]
PyInt(n) == [int |-> n]
PyList(l) == [list |-> l]
PyDict(d) == [dict |-> d]
Raise(e) == [raise |-> e]

IsNone(v) == "none" \in DOMAIN v
IsStr(v) == "str" \in DOMAIN v
IsInt(v) == "int" \in DOMAIN v
IsList(v) == "list" \in DOMAIN v
IsDict(v) == "dict" \in DOMAIN v
IsRaise(v) == "raise" \in DOMAIN v

\* v[k] for a Python object v and a str key k: dict lookup; indexing a
\* list or a str with a str, or subscripting anything else, is a TypeError.
GetKey(v, k) ==
    IF IsDict(v) THEN
        IF \E i \in 1..Len(v.dict) : v.dict[i][1] = k
        THEN LET i == CHOOSE j \in 1..Len(v.dict) : v.dict[j][1] = k
             IN  v.dict[i][2]
        ELSE Raise("KeyError")
    ELSE Raise("TypeError")

\* v[n] for a Python object v and an int n >= 0: list and str indexing; a
\* dict has no int key in these documents (JSON keys are strings).
GetIndex(v, n) ==
    IF IsDict(v) THEN Raise("KeyError")
    ELSE IF IsList(v) THEN
        IF n + 1 \in 1..Len(v.list) THEN v.list[n + 1] ELSE Raise("IndexError")
    ELSE IF IsStr(v) THEN
        IF n + 1 \in 1..Len(v.str) THEN PyStr(<<v.str[n + 1]>>)
        ELSE Raise("IndexError")
    ELSE Raise("TypeError")

\* An exception raised by an operand propagates through the subscript.
SubscriptKey(v, k) == IF IsRaise(v) THEN v ELSE GetKey(v, k)
SubscriptIndex(v, n) == IF IsRaise(v) THEN v ELSE GetIndex(v, n)

\* try: body / except classes: return '-'
Placeholder == PyStr(<<"-">>)
TryExcept(result, classes) ==
    IF IsRaise(result) /\ result.raise \in classes THEN Placeholder ELSE result

\* ------------------------------------------------- documents and soups
\* A parsed document (a BeautifulSoup object) is described by what the
\* lookups of the script find in it: the texts of its <loc> elements, and
\* the first element matching each of the four course lookups (None when
\* no element matches). The element found by a lookup carries what is read
\* from it: its text, or the 'week' elements below it.
search_classes ==
    [course_name |-> "title", course_language |-> "language",
     weeks_tag |-> "weeks", app_script |-> "app", ld_script |-> "ld"]

Tag(text) == [text |-> text]
WeekView(n) == [week_tags |-> [i \in 1..n |-> Tag(PyStr(<<>>))]]
\* The text of a script element: what re.findall finds in it, or the JSON
\* value json.loads reads from it (NotJson: text that is no JSON document).
AppText(ratings) == [ratings |-> ratings]
JsonText(v) == [json |-> v]
NotJson == [notjson |-> TRUE]

Document(locs, title, language, weeks, app, ld) ==
    [locs |-> locs, title |-> title, language |-> language, weeks |-> weeks,
     app |-> app, ld |-> ld]
BeautifulSoup(doc) == [soup |-> doc]

\* Sample content of course pages.
Titles == {<<"M", "L">>, <<"A", "I">>}
Languages == {<<"e", "n">>}
Ratings == {<<"4", ".", "5">>}
Dates == {<<"2", "0", "1", "7">>}

StartDates == {PyStr(d) : d \in Dates} \cup {PyNone}
Instances ==
    {PyDict(<<>>), PyStr(<<"x">>), PyNone}
        \cup {PyDict(<< <<"startDate", d>> >>) : d \in StartDates}
CourseInstanceValues ==
    {PyList(<<>>), PyDict(<<>>), PyStr(<<>>), PyStr(<<"x">>), PyNone}
        \cup {PyList(<<i>>) : i \in Instances}
        \cup {PyDict(<< <<"startDate", PyStr(d)>> >>) : d \in Dates}
LdValues ==
    {PyDict(<<>>), PyList(<<>>)}
        \cup {PyDict(<< <<"hasCourseInstance", v>> >>) : v \in CourseInstanceValues}
LdTexts == {NotJson} \cup {JsonText(v) : v \in LdValues}

TitleElements == {PyNone} \cup {Tag(PyStr(t)) : t \in Titles}
LanguageElements == {PyNone} \cup {Tag(PyStr(t)) : t \in Languages}
WeeksElements == {PyNone} \cup {WeekView(n) : n \in 0..MaxWeeks}
AppElements ==
    {PyNone, Tag(AppText(<<>>))} \cup {Tag(AppText(<<r>>)) : r \in Ratings}
LdElements == {PyNone} \cup {Tag(t) : t \in LdTexts}

\* Every course page of the sample content.
Pages ==
    {Document(<<>>, t, l, w, a, d) :
        t \in TitleElements, l \in LanguageElements, w \in WeeksElements,
        a \in AppElements, d \in LdElements}

\* A page with the full markup; the pages that differ from it in at most
\* one element, and the page with no course markup at all.
LdWithStartDate(d) ==
    Tag(JsonText(PyDict(<< <<"hasCourseInstance",
        PyList(<<PyDict(<< <<"startDate", d>> >>)>>)>> >>)))
FullPage ==
    Document(<<>>, Tag(PyStr(<<"M", "L">>)), Tag(PyStr(<<"e", "n">>)),
             WeekView(MaxWeeks), Tag(AppText(<<<<"4", ".", "5">>>>)),
             LdWithStartDate(PyStr(<<"2", "0", "1", "7">>)))
EmptyPage == Document(<<>>, PyNone, PyNone, PyNone, PyNone, PyNone)
Differences(p, q) ==
    Cardinality({f \in {"title", "language", "weeks", "app", "ld"} : p[f] # q[f]})
NearFullPages ==
    {p \in Pages : p = EmptyPage \/ Differences(p, FullPage) <= 1}

SitemapDocument(urls) == Document(urls, PyNone, PyNone, PyNone, PyNone, PyNone)

\* ----------------------------------------------- attribute access
\* soup.find(...): AttributeError on None, else the element found (or None).
Find(soup, which) ==
    IF IsRaise(soup) THEN soup
    ELSE IF IsNone(soup) THEN Raise("AttributeError")
    ELSE soup.soup[which]
\* element.text
TextOf(el) ==
    IF IsRaise(el) THEN el
    ELSE IF IsNone(el) THEN Raise("AttributeError")
    ELSE el.text
\* element.find_all(class_='week')
FindAllWeeks(el) ==
    IF IsRaise(el) THEN el
    ELSE IF IsNone(el) THEN Raise("AttributeError")
    ELSE PyList(el.week_tags)
PyLen(v) == IF IsRaise(v) THEN v ELSE PyInt(Len(v.list))
\* re.findall(r'"averageFiveStarRating":([\d.]+)', text)
ReFindall(text) ==
    IF IsRaise(text) THEN text
    ELSE PyList([i \in 1..Len(text.ratings) |-> PyStr(text.ratings[i])])
\* json.loads(text.strip())
JsonLoads(text) ==
    IF IsRaise(text) THEN text
    ELSE IF "json" \in DOMAIN text THEN text.json
    ELSE Raise("JSONDecodeError")

\* ------------------------------------------------------ class Course
\* get_name without its except clause.
get_name_Uncaught(soup) == TextOf(Find(soup, search_classes.course_name))

get_name(soup) ==
    TryExcept(TextOf(Find(soup, search_classes.course_name)), {"AttributeError"})

get_language(soup) ==
    TryExcept(TextOf(Find(soup, search_classes.course_language)),
              {"AttributeError"})

get_duration(soup) ==
    TryExcept(PyLen(FindAllWeeks(Find(soup, search_classes.weeks_tag))),
              {"AttributeError"})

average_score_lookup(soup) ==
    SubscriptIndex(ReFindall(TextOf(Find(soup, search_classes.app_script))), 0)

get_average_score(soup) ==
    TryExcept(average_score_lookup(soup), {"AttributeError", "IndexError"})

\* course_script_vars = json.loads(...); the value the try block returns.
start_date_lookup(soup) ==
    SubscriptKey(
        SubscriptIndex(
            SubscriptKey(JsonLoads(TextOf(Find(soup, search_classes.ld_script))),
                         "hasCourseInstance"),
            0),
        "startDate")

get_start_date(soup) ==
    TryExcept(start_date_lookup(soup), {"AttributeError", "IndexError", "KeyError"})

\* The dict display evaluates its values in order; the first exception an
\* extractor lets through ends get_course_info.
CourseKeys == {"name", "language", "weeks", "average_score", "start_date"}
get_course_info(soup) ==
    LET values == <<get_name(soup), get_language(soup), get_duration(soup),
                    get_average_score(soup), get_start_date(soup)>>
        raised == {i \in 1..5 : IsRaise(values[i])}
    IN  IF raised # {}
        THEN values[CHOOSE i \in raised : \A j \in raised : i <= j]
        ELSE [name |-> values[1], language |-> values[2], weeks |-> values[3],
              average_score |-> values[4], start_date |-> values[5]]

\* ------------------------------------------------------- HTTP and URLs
\* A URL is a number: 0 is the sitemap, i >= 1 the i-th course page.
coursera_xml_feed_url == 0
\* What requests.get gives: a response, or an exception when the request
\* cannot be completed.
Response(status, doc) == [status_code |-> status, text |-> doc]
ConnectionError == Raise("ConnectionError")

get_soup_from_url(response) ==
    IF response.status_code = 200 THEN BeautifulSoup(response.text) ELSE PyNone

\* find_all(name, limit=limit) over the elements found in document order:
\* the loop stops when `limit and len(results) >= limit`.
RECURSIVE FindAllFrom(_, _, _, _)
FindAllFrom(found, i, results, limit) ==
    IF i > Len(found) THEN results
    ELSE LET more == Append(results, found[i])
         IN  IF limit # 0 /\ Len(more) >= limit THEN more
             ELSE FindAllFrom(found, i + 1, more, limit)
FindAll(found, limit) == FindAllFrom(found, 1, <<>>, limit)

get_courses_list(response, amount) ==
    LET courses_list_soup == get_soup_from_url(response)
    IN  IF ~IsNone(courses_list_soup)
        THEN PyList(FindAll(courses_list_soup.soup.locs, amount))
        ELSE PyNone

\* Python truth of a list-or-None.
Truthy(v) == ~IsNone(v) /\ v.list # <<>>

\* --------------------------------------------------------- file names
XlsxExt == <<".", "x", "l", "s", "x">>
Contains(s, sub) ==
    \E i \in 0..(Len(s) - Len(sub)) : SubSeq(s, i + 1, i + Len(sub)) = sub
\* if '.xlsx' not in output_file_name: output_file_name += '.xlsx'
AddExtension(name) == IF ~Contains(name, XlsxExt) THEN name \o XlsxExt ELSE name
\* os.path.join with a single argument gives the argument.
os_path_join(path) == path

NamePieces == {<<"a">>, <<".">>, <<"x">>, XlsxExt}
RECURSIVE FileNamesOf(_)
FileNamesOf(n) ==
    IF n = 0 THEN {<<>>}
    ELSE LET shorter == FileNamesOf(n - 1)
         IN  shorter \cup {s \o p : s \in shorter, p \in NamePieces}

\* ------------------------------------------------------- spreadsheet
\* textwrap.fill(text, width): ValueError for a width <= 0, else the text
\* wrapped into lines of at most width characters.
Fill(text, width) ==
    IF width <= 0 THEN Raise("ValueError")
    ELSE [wrapped |-> text.str, width |-> width]

Header ==
    <<PyStr(<<"Name of course">>), PyStr(<<"Language">>),
      PyStr(<<"Date of start">>), PyStr(<<"Duration">>),
      PyStr(<<"Average score">>)>>
setup_excel_workbook(name_width, language_width) ==
    [column_widths |-> <<name_width, language_width, 16, 9, 16>>,
     cells |-> [c \in {1} \X (1..5) |-> Header[c[2]]]]

\* sheet.cell(row=row, column=column).value = value
SetCell(cells, row, column, value) ==
    [c \in DOMAIN cells \cup {<<row, column>>} |->
        IF c = <<row, column>> THEN value ELSE cells[c]]

\* The loop writing to row + 1 instead of row + 2.
WriteCourse_FromRowOne(cells, row, course, name_column_width, language_column_width) ==
    LET name == Fill(course.name, name_column_width)
        language == Fill(course.language, language_column_width)
        c1 == SetCell(cells, row + 1, 1, name)
        c2 == SetCell(c1, row + 1, 2, language)
        c3 == SetCell(c2, row + 1, 3, course.start_date)
        c4 == SetCell(c3, row + 1, 4, course.weeks)
        c5 == SetCell(c4, row + 1, 5, course.average_score)
    IN  IF IsRaise(name) THEN [cells |-> cells, raised |-> name]
        ELSE IF IsRaise(language) THEN [cells |-> c1, raised |-> language]
        ELSE [cells |-> c5, raised |-> PyNone]

\* The body of the loop of output_courses_info_to_xlsx for one course: the
\* cells after it, and the exception that ended it (None when none did).
WriteCourse(cells, row, course, name_column_width, language_column_width) ==
    LET name == Fill(course.name, name_column_width)
        language == Fill(course.language, language_column_width)
        c1 == SetCell(cells, row + 2, 1, name)
        c2 == SetCell(c1, row + 2, 2, language)
        c3 == SetCell(c2, row + 2, 3, course.start_date)
        c4 == SetCell(c3, row + 2, 4, course.weeks)
        c5 == SetCell(c4, row + 2, 5, course.average_score)
    IN  IF IsRaise(name) THEN [cells |-> cells, raised |-> name]
        ELSE IF IsRaise(language) THEN [cells |-> c1, raised |-> language]
        ELSE [cells |-> c5, raised |-> PyNone]

\* ------------------------------------------------------------- state
VARIABLES
    pc,                 \* where the script is
    args,               \* what parse_arguments returned
    output_file_name,   \* the name the workbook is saved under
    courses_urls_list,  \* what get_courses_list returned
    stdout,             \* the messages printed so far
    requests,           \* every requests.get so far: its URL and its outcome
    url_index,          \* URLs the loop of parse_courses has taken
    course_soup,        \* the soup of the page being parsed
    courses,            \* courses_list of parse_courses, then `courses`
    workbook,           \* the workbook (None before setup_excel_workbook)
    row,                \* rows the loop of output_courses_info_to_xlsx has written
    files,              \* the files saved: path and content
    exception           \* the uncaught exception that ended the run, or None

vars ==
    <<pc, args, output_file_name, courses_urls_list, stdout, requests,
      url_index, course_soup, courses, workbook, row, files, exception>>

Getting == "---Getting course list..."
Parsing == "---Parsing courses info. This can take a while"
Success == "---Success: {} is ready!"
WentWrong == "!!! Something went wrong"

Init ==
    /\ pc = "parse_arguments"
    /\ args = PyNone
    /\ output_file_name = PyNone
    /\ courses_urls_list = PyNone
    /\ stdout = <<>>
    /\ requests = <<>>
    /\ url_index = 0
    /\ course_soup = PyNone
    /\ courses = <<>>
    /\ workbook = PyNone
    /\ row = 0
    /\ files = <<>>
    /\ exception = PyNone

\* An uncaught exception ends the run.
Abort(e) == pc' = "aborted" /\ exception' = e

\* parse_arguments and the extension check.
ParseArguments(in) ==
    /\ pc = "parse_arguments"
    /\ \E command_line \in in.command_lines :
        /\ args' = command_line
        /\ output_file_name' = PyStr(AddExtension(command_line.output))
    /\ pc' = "get_courses_list"
    /\ UNCHANGED <<courses_urls_list, stdout, requests, url_index, course_soup,
                   courses, workbook, row, files, exception>>

\* courses_urls_list = get_courses_list(...); print('---Getting ...')
GetCoursesList(in) ==
    /\ pc = "get_courses_list"
    /\ \E response \in in.sitemaps :
        /\ requests' = Append(requests, [url |-> coursera_xml_feed_url,
                                         response |-> response])
        /\ IF IsRaise(response)
           THEN /\ Abort(response)
                /\ UNCHANGED <<courses_urls_list, stdout>>
           ELSE /\ courses_urls_list' = get_courses_list(response, args.amount)
                /\ stdout' = Append(stdout, Getting)
                /\ pc' = "if_courses_urls_list"
                /\ UNCHANGED exception
    /\ UNCHANGED <<args, output_file_name, url_index, course_soup, courses,
                   workbook, row, files>>

\* else: print('!!! Something went wrong ...')
PrintWentWrong ==
    /\ pc = "if_courses_urls_list"
    /\ ~Truthy(courses_urls_list)
    /\ stdout' = Append(stdout, WentWrong)
    /\ pc' = "done"
    /\ UNCHANGED <<args, output_file_name, courses_urls_list, requests, url_index,
                   course_soup, courses, workbook, row, files, exception>>

\* if courses_urls_list: parse_courses is entered, courses_list = []
EnterParseCourses ==
    /\ pc = "if_courses_urls_list"
    /\ Truthy(courses_urls_list)
    /\ courses' = <<>>
    /\ url_index' = 0
    /\ pc' = "for_url"
    /\ UNCHANGED <<args, output_file_name, courses_urls_list, stdout, requests,
                   course_soup, workbook, row, files, exception>>

\* The loop keeping the soup of the page before when the status is not 200.
FetchCourse_StaleSoup(in) ==
    /\ pc = "for_url"
    /\ url_index < Len(courses_urls_list.list)
    /\ url_index' = url_index + 1
    /\ \E response \in in.pages :
        /\ requests' = Append(requests,
                              [url |-> courses_urls_list.list[url_index + 1],
                               response |-> response])
        /\ IF IsRaise(response)
           THEN Abort(response) /\ UNCHANGED course_soup
           ELSE /\ course_soup' = IF response.status_code = 200
                                  THEN BeautifulSoup(response.text)
                                  ELSE course_soup
                /\ pc' = "course"
                /\ UNCHANGED exception
    /\ UNCHANGED <<args, output_file_name, courses_urls_list, stdout, courses,
                   workbook, row, files>>

\* for url in urls_list: course_soup = get_soup_from_url(url)
FetchCourse(in) ==
    /\ pc = "for_url"
    /\ url_index < Len(courses_urls_list.list)
    /\ url_index' = url_index + 1
    /\ \E response \in in.pages :
        /\ requests' = Append(requests,
                              [url |-> courses_urls_list.list[url_index + 1],
                               response |-> response])
        /\ IF IsRaise(response)
           THEN Abort(response) /\ UNCHANGED course_soup
           ELSE /\ course_soup' = get_soup_from_url(response)
                /\ pc' = "course"
                /\ UNCHANGED exception
    /\ UNCHANGED <<args, output_file_name, courses_urls_list, stdout, courses,
                   workbook, row, files>>

\* The loop skipping the pages that gave no soup.
AppendCourse_SkipNone ==
    /\ pc = "course"
    /\ LET info == get_course_info(course_soup)
       IN  IF IsRaise(info)
           THEN Abort(info) /\ UNCHANGED courses
           ELSE /\ courses' = IF IsNone(course_soup) THEN courses
                              ELSE Append(courses, info)
                /\ pc' = "for_url"
                /\ UNCHANGED exception
    /\ UNCHANGED <<args, output_file_name, courses_urls_list, stdout, requests,
                   url_index, course_soup, workbook, row, files>>

\* The loop putting each record in front of the list.
AppendCourse_Prepend ==
    /\ pc = "course"
    /\ LET info == get_course_info(course_soup)
       IN  IF IsRaise(info)
           THEN Abort(info) /\ UNCHANGED courses
           ELSE /\ courses' = <<info>> \o courses
                /\ pc' = "for_url"
                /\ UNCHANGED exception
    /\ UNCHANGED <<args, output_file_name, courses_urls_list, stdout, requests,
                   url_index, course_soup, workbook, row, files>>

\* course = Course(course_soup); courses_list.append(course.get_course_info())
AppendCourse ==
    /\ pc = "course"
    /\ LET info == get_course_info(course_soup)
       IN  IF IsRaise(info)
           THEN Abort(info) /\ UNCHANGED courses
           ELSE /\ courses' = Append(courses, info)
                /\ pc' = "for_url"
                /\ UNCHANGED exception
    /\ UNCHANGED <<args, output_file_name, courses_urls_list, stdout, requests,
                   url_index, course_soup, workbook, row, files>>

\* return courses_list; print('---Parsing ...'); wb = setup_excel_workbook(...)
SetupWorkbook ==
    /\ pc = "for_url"
    /\ url_index = Len(courses_urls_list.list)
    /\ stdout' = Append(stdout, Parsing)
    /\ workbook' = setup_excel_workbook(args.name_width, args.lang_width)
    /\ row' = 0
    /\ pc' = "for_row"
    /\ UNCHANGED <<args, output_file_name, courses_urls_list, requests, url_index,
                   course_soup, courses, files, exception>>

\* for row, course in enumerate(courses_info): the five cells of the row
WriteRow ==
    /\ pc = "for_row"
    /\ row < Len(courses)
    /\ LET written == WriteCourse(workbook.cells, row, courses[row + 1],
                                  args.name_width, args.lang_width)
       IN  /\ workbook' = [workbook EXCEPT !.cells = written.cells]
           /\ IF IsRaise(written.raised)
              THEN Abort(written.raised) /\ UNCHANGED row
              ELSE row' = row + 1 /\ UNCHANGED <<pc, exception>>
    /\ UNCHANGED <<args, output_file_name, courses_urls_list, stdout, requests,
                   url_index, course_soup, courses, files>>

\* The save inside the loop over the rows.
Save_InsideLoop ==
    /\ pc = "for_row"
    /\ files' = Append(files, [path |-> os_path_join(output_file_name.str),
                               workbook |-> workbook])
    /\ pc' = IF row = Len(courses) THEN "print_success" ELSE "for_row"
    /\ Len(files) < 2
    /\ UNCHANGED <<args, output_file_name, courses_urls_list, stdout, requests,
                   url_index, course_soup, courses, workbook, row, exception>>

\* file_path = os.path.join(file_path); workbook.save(file_path)
Save ==
    /\ pc = "for_row"
    /\ row = Len(courses)
    /\ files' = Append(files, [path |-> os_path_join(output_file_name.str),
                               workbook |-> workbook])
    /\ pc' = "print_success"
    /\ UNCHANGED <<args, output_file_name, courses_urls_list, stdout, requests,
                   url_index, course_soup, courses, workbook, row, exception>>

\* print('---Success: {} is ready!'.format(output_file_name))
PrintSuccess ==
    /\ pc = "print_success"
    /\ stdout' = Append(stdout, Success)
    /\ pc' = "done"
    /\ UNCHANGED <<args, output_file_name, courses_urls_list, requests, url_index,
                   course_soup, courses, workbook, row, files, exception>>

Run(in) ==
    \/ ParseArguments(in)
    \/ GetCoursesList(in)
    \/ PrintWentWrong
    \/ EnterParseCourses
    \/ FetchCourse(in)
    \/ AppendCourse
    \/ SetupWorkbook
    \/ WriteRow
    \/ Save
    \/ PrintSuccess

\* ------------------------------------------------------------ inputs
DefaultAmount == 20
DefaultWidth == 40
DefaultOutput == <<"courses">> \o XlsxExt

\* The outcomes of the sitemap request: no response, a response that is not
\* 200, and a sitemap of n URLs.
Sitemap(n) == Response(200, SitemapDocument([i \in 1..n |-> i]))
NotFound == Response(404, EmptyPage)
SitemapResponses == {ConnectionError, NotFound} \cup {Sitemap(n) : n \in 0..MaxUrls}
\* The outcomes of the request of a course page.
PageResponses(pages) ==
    {ConnectionError, NotFound} \cup {Response(200, p) : p \in pages}

\* What parse_arguments returns for a command line.
CommandLine(amount, output, name_width, lang_width) ==
    [amount |-> amount, output |-> output, name_width |-> name_width,
     lang_width |-> lang_width]
DefaultCommandLine ==
    CommandLine(DefaultAmount, DefaultOutput, DefaultWidth, DefaultWidth)

\* The run without arguments, over every sitemap and the pages near the
\* full markup.
RunInputs ==
    [command_lines |-> {DefaultCommandLine},
     sitemaps |-> SitemapResponses, pages |-> PageResponses(NearFullPages)]
Next == Run(RunInputs)
Spec == Init /\ [][Next]_vars

\* The run over the command lines that give one argument: every amount
\* around the sitemap's length, every output name, and column widths that
\* textwrap accepts or rejects; the pages have all the markup or none.
CommandLines ==
    {CommandLine(a, DefaultOutput, DefaultWidth, DefaultWidth) :
         a \in (0 - 1)..(MaxUrls + 1)}
        \cup {CommandLine(DefaultAmount, o, DefaultWidth, DefaultWidth) :
                  o \in FileNamesOf(MaxParts)}
        \cup {CommandLine(DefaultAmount, DefaultOutput, w, DefaultWidth) :
                  w \in {0 - 1, 0, 1}}
        \cup {CommandLine(DefaultAmount, DefaultOutput, DefaultWidth, w) :
                  w \in {0 - 1, 0, 1}}
ArgsInputs ==
    [command_lines |-> CommandLines,
     sitemaps |-> SitemapResponses, pages |-> PageResponses({FullPage, EmptyPage})]
NextArgs == Run(ArgsInputs)
SpecArgs == Init /\ [][NextArgs]_vars

\* The run without arguments over every course page of the sample content,
\* one course a run.
CourseInputs ==
    [command_lines |-> {DefaultCommandLine},
     sitemaps |-> {NotFound, Sitemap(1)}, pages |-> PageResponses(Pages)]
NextCourse == Run(CourseInputs)
SpecCourse == Init /\ [][NextCourse]_vars

\* ------------------------------------------------- the claims' vocabulary
Min(a, b) == IF a <= b THEN a ELSE b
EndsWith(s, sub) ==
    Len(s) >= Len(sub) /\ SubSeq(s, Len(s) - Len(sub) + 1, Len(s)) = sub
SitemapResponse == requests[1].response
SitemapRequested == Len(requests) >= 1
SitemapUrls == SitemapResponse.text.locs
Urls == courses_urls_list.list
ListReturned ==
    pc \notin {"parse_arguments", "get_courses_list"} /\ ~IsRaise(SitemapResponse)
\* The response to the request of the i-th course URL, and its soup.
PageResponse(i) == requests[i + 1].response
PageSoup(i) == get_soup_from_url(PageResponse(i))
Ended == pc \in {"done", "aborted"}
Printed(message) == \E i \in 1..Len(stdout) : stdout[i] = message
AllPlaceholders ==
    [name |-> Placeholder, language |-> Placeholder, weeks |-> Placeholder,
     average_score |-> Placeholder, start_date |-> Placeholder]
\* The element a lookup reads is absent from the page (or there is no page).
Absent(soup, which) == IsNone(soup) \/ IsNone(soup.soup[which])

\* C1: for a sitemap of N URLs and a requested amount A, get_courses_list
\* returns exactly the first min(N, A) URLs of the sitemap, in sitemap
\* order, for every integer A, A = 0 and A > N included (stated for the
\* amounts A >= 0, for which min(N, A) is a length).
C1_FirstMinUrls ==
    (ListReturned /\ SitemapResponse.status_code = 200 /\ args.amount >= 0)
        => Urls = SubSeq(SitemapUrls, 1, Min(Len(SitemapUrls), args.amount))

\* C2: an extractor whose element is absent from the page returns '-' and
\* does not raise; with no document at all (soup None) the record of
\* get_course_info has '-' in all five fields.
C2_AbsentElementGivesPlaceholder ==
    /\ pc = "course" =>
        /\ Absent(course_soup, "title") => get_name(course_soup) = Placeholder
        /\ Absent(course_soup, "language") => get_language(course_soup) = Placeholder
        /\ Absent(course_soup, "weeks") => get_duration(course_soup) = Placeholder
        /\ Absent(course_soup, "app") => get_average_score(course_soup) = Placeholder
        /\ Absent(course_soup, "ld") => get_start_date(course_soup) = Placeholder
        /\ IsNone(course_soup) => get_course_info(course_soup) = AllPlaceholders
    /\ \A i \in 1..Len(courses) :
        /\ IsNone(PageSoup(i)) => courses[i] = AllPlaceholders
        /\ (~IsNone(PageSoup(i)) /\ Absent(PageSoup(i), "title"))
               => courses[i].name = Placeholder
        /\ (~IsNone(PageSoup(i)) /\ Absent(PageSoup(i), "weeks"))
               => courses[i].weeks = Placeholder
C2_Witness ==
    /\ Len(courses) = 1
    /\ PageResponse(1).status_code = 200
    /\ Absent(PageSoup(1), "title") /\ ~Absent(PageSoup(1), "language")
    /\ Absent(PageSoup(1), "ld")
    /\ courses[1].name = Placeholder /\ courses[1].start_date = Placeholder
    /\ courses[1].language # Placeholder

\* C3: when the extraction of the start date or of the average score fails
\* on a malformed script payload or a missing JSON key, that field is '-',
\* the other four fields keep their extracted values, and parse_courses
\* goes on with the remaining URLs: no extractor ends the run.
C3_FailedExtractionGivesPlaceholder ==
    /\ \A i \in 1..Len(courses) :
        /\ IsRaise(start_date_lookup(PageSoup(i))) =>
            /\ courses[i].start_date = Placeholder
            /\ courses[i].name = get_name(PageSoup(i))
            /\ courses[i].language = get_language(PageSoup(i))
            /\ courses[i].weeks = get_duration(PageSoup(i))
            /\ courses[i].average_score = get_average_score(PageSoup(i))
        /\ IsRaise(average_score_lookup(PageSoup(i))) =>
            /\ courses[i].average_score = Placeholder
            /\ courses[i].name = get_name(PageSoup(i))
            /\ courses[i].language = get_language(PageSoup(i))
            /\ courses[i].weeks = get_duration(PageSoup(i))
    /\ pc = "aborted" => exception.raise \notin {"JSONDecodeError", "TypeError"}

\* C4: if the sitemap fetch fails (the request cannot be completed, or its
\* status is not 200) or the sitemap has no URL, the run ends by printing
\* the '!!! Something went wrong' message: no course page is fetched, no
\* workbook is created or saved, the success message is never printed.
SitemapFailed ==
    /\ SitemapRequested
    /\ \/ IsRaise(SitemapResponse)
       \/ SitemapResponse.status_code # 200
       \/ SitemapUrls = <<>>
C4_FailedSitemapPrintsDiagnostic ==
    SitemapFailed =>
        /\ Len(requests) = 1
        /\ workbook = PyNone /\ files = <<>>
        /\ ~Printed(Success)
        /\ Ended => (stdout # <<>> /\ stdout[Len(stdout)] = WentWrong)

\* C5: a requested name that does not end with '.xlsx' is saved with
\* '.xlsx' appended, one that ends with it is saved unchanged; the saved
\* name always ends with '.xlsx' and normalising twice is normalising once.
C5_SavedNameEndsWithExtension ==
    \A i \in 1..Len(files) :
        /\ files[i].path =
               IF EndsWith(args.output, XlsxExt) THEN args.output
               ELSE args.output \o XlsxExt
        /\ EndsWith(files[i].path, XlsxExt)
        /\ AddExtension(files[i].path) = files[i].path

\* The rows below the header that hold a cell, and the cells of a row.
DataRows(cells) == {c[1] : c \in DOMAIN cells} \ {1}
HasRow(cells, r) == \A c \in 1..5 : <<r, c>> \in DOMAIN cells
HeaderInPlace(cells) == \A c \in 1..5 : cells[<<1, c>>] = Header[c]
\* Row r holds the record `course`: name and language wrapped, then the
\* start date, the weeks and the average score.
RowHolds(cells, r, course) ==
    /\ HasRow(cells, r)
    /\ cells[<<r, 1>>].wrapped = course.name.str
    /\ cells[<<r, 2>>].wrapped = course.language.str
    /\ cells[<<r, 3>>] = course.start_date
    /\ cells[<<r, 4>>] = course.weeks
    /\ cells[<<r, 5>>] = course.average_score
\* The three outcomes of a page fetch the claim C6 names: a status that is
\* not 200, and a 200 page each of whose elements is missing or well formed.
MarkupOrMissing(p) ==
    /\ p.app \in {PyNone} \cup {Tag(AppText(<<r>>)) : r \in Ratings}
    /\ p.ld \in {PyNone} \cup {LdWithStartDate(d) : d \in StartDates}
NamedOutcome(response) ==
    /\ ~IsRaise(response)
    /\ response.status_code = 200 => MarkupOrMissing(response.text)
ParseReturned == workbook # PyNone
PositiveWidths == args.name_width > 0 /\ args.lang_width > 0
CountsAndRows ==
    /\ DataRows(workbook.cells) = 2..(Len(Urls) + 1)
    /\ \A i \in 1..Len(Urls) :
        /\ requests[i + 1].url = Urls[i]
        /\ courses[i] = get_course_info(PageSoup(i))
        /\ RowHolds(workbook.cells, i + 1, courses[i])

Fetched == {i \in 1..Len(Urls) : PageResponse(i).status_code = 200}
C7_HeaderAndRows_AsClaimed ==
    /\ workbook # PyNone => HeaderInPlace(workbook.cells)
    /\ \A f \in 1..Len(files) :
        /\ HeaderInPlace(files[f].workbook.cells)
        /\ Cardinality(DataRows(files[f].workbook.cells)) = Cardinality(Fetched)

\* C7 amended: the header is as claimed, and below it the saved sheet has
\* one data row per course URL of the list: a course whose page could not
\* be fetched (a status that is not 200) contributes a row of placeholders.
C7_HeaderAndRows ==
    /\ workbook # PyNone => HeaderInPlace(workbook.cells)
    /\ \A f \in 1..Len(files) :
        /\ HeaderInPlace(files[f].workbook.cells)
        /\ DataRows(files[f].workbook.cells) = 2..(Len(Urls) + 1)
        /\ \A i \in 1..Len(Urls) :
            /\ HasRow(files[f].workbook.cells, i + 1)
            /\ i \notin Fetched
                   => RowHolds(files[f].workbook.cells, i + 1, AllPlaceholders)
C7_Witness ==
    /\ Len(files) = 1 /\ Len(Urls) = 2
    /\ Fetched = {2}
    /\ RowHolds(files[1].workbook.cells, 2, AllPlaceholders)

\* What the page of a soup holds for a field of the record.
OwnValues(soup, key) ==
    IF IsNone(soup) THEN {}
    ELSE LET p == soup.soup
         IN  CASE key = "name" ->
                    IF IsNone(p.title) THEN {} ELSE {p.title.text}
               [] key = "language" ->
                    IF IsNone(p.language) THEN {} ELSE {p.language.text}
               [] key = "weeks" ->
                    IF IsNone(p.weeks) THEN {} ELSE {PyInt(Len(p.weeks.week_tags))}
               [] key = "average_score" ->
                    IF IsNone(p.app) THEN {}
                    ELSE {PyStr(p.app.text.ratings[j]) :
                              j \in 1..Len(p.app.text.ratings)}
               [] key = "start_date" ->
                    {d \in StartDates : p.ld = LdWithStartDate(d)}
RecordFromOwnPage(i) ==
    /\ DOMAIN courses[i] = CourseKeys
    /\ \A key \in CourseKeys :
        courses[i][key] \in OwnValues(PageSoup(i), key) \cup {Placeholder}

\* C8 as claimed: every record has exactly the five keys, each field the
\* value parsed from the course's own page or '-'; no field is absent, is
\* None, or has a value of another course's page.
C8_FiveOwnFields_AsClaimed ==
    \A i \in 1..Len(courses) :
        /\ RecordFromOwnPage(i)
        /\ \A key \in CourseKeys : ~IsNone(courses[i][key])

\* C8 amended: the same, except that start_date is None when the page's own
\* JSON gives the first course instance a startDate of null; name, language,
\* weeks and average_score are never None.
C8_FiveOwnFields ==
    \A i \in 1..Len(courses) :
        /\ RecordFromOwnPage(i)
        /\ \A key \in CourseKeys \ {"start_date"} : ~IsNone(courses[i][key])
        /\ IsNone(courses[i].start_date)
               => PageSoup(i).soup.ld = LdWithStartDate(PyNone)
C8_Witness ==
    /\ Len(courses) = 2
    /\ IsNone(courses[1].start_date)
    /\ courses[1].name # Placeholder
    /\ IsNone(PageSoup(2)) /\ courses[2] = AllPlaceholders

\* C9: parse_courses is sequential: a course page is requested only when
\* the record of every URL before it has been appended, every URL is
\* requested exactly once and in list order, and record i is the one of
\* URL i's page alone.
TimesRequested(i) ==
    Cardinality({k \in 2..Len(requests) : requests[k].url = Urls[i]})
C9_InOrder ==
    Truthy(courses_urls_list) =>
        /\ Len(requests) <= Len(Urls) + 1
        /\ \A i \in 1..Len(Urls) :
            TimesRequested(i) = IF i + 1 <= Len(requests) THEN 1 ELSE 0
        /\ \A k \in 2..Len(requests) : requests[k].url = Urls[k - 1]
        /\ Len(courses) <= Len(requests) - 1
        /\ \A i \in 1..Len(courses) : courses[i] = get_course_info(PageSoup(i))
        /\ ParseReturned => Len(requests) = Len(Urls) + 1
C9_FetchAfterAppend ==
    (Len(requests) >= 1 /\ requests' # requests)
        => /\ Len(courses) = Len(requests) - 1
           /\ requests'[Len(requests')].url = Urls[Len(courses) + 1]
           /\ courses' = courses
C9_Sequential == [](C9_InOrder) /\ [][C9_FetchAfterAppend]_vars
C9_Witness ==
    /\ pc = "for_url" /\ Len(courses) = 2 /\ Len(requests) = 3
    /\ courses[1] # courses[2]

\* C10: the workbook is saved at most once, and only after every URL of the
\* list has been fetched and parsed; the success message is printed only
\* after the save; a run that an exception ends while a course page is
\* processed saves no file.
AbortedInCourse == pc = "aborted" /\ Len(requests) >= 2 /\ workbook = PyNone
C10_SavedOnceAtTheEnd ==
    /\ Len(files) <= 1
    /\ files # <<>> =>
        /\ url_index = Len(Urls) /\ Len(courses) = Len(Urls)
        /\ Len(requests) = Len(Urls) + 1
        /\ row = Len(courses)
    /\ Printed(Success) => Len(files) = 1
    /\ AbortedInCourse => files = <<>>
C10_Witness ==
    /\ AbortedInCourse /\ Len(courses) = 1 /\ Len(requests) = 3
    /\ exception = Raise("JSONDecodeError")
    /\ files = <<>>

====
